---------------------------- MODULE Spec2Model ----------------------------
(***************************************************************************)
(* A model of clapper: reference resolution and chained loading            *)
(* (clapper/config.py), the precedence resolution of ResourceOption        *)
(* (clapper/click.py), the dotted-key store UserDefaults (clapper/rc.py),  *)
(* its write() taken one system call at a time, and the set and rm         *)
(* commands of user_defaults_group (clapper/click.py).                     *)
(*                                                                         *)
(* Python strings are sequences of one-character strings, so that          *)
(* rsplit(":"), split("."), join and startswith are computed, not assumed. *)
(* Python values are tagged records [t, v].                                *)
(***************************************************************************)
EXTENDS Integers, Sequences, FiniteSets, TLC

VARIABLES
    \* _resolve_entry_point_or_modules, called on its own
    r_paths, r_group, r_common, r_out,
    \* load: the arguments and locals of the call in progress
    ld,
    \* the module objects (heap) and the process-wide retention list
    heap, LOADED_CONFIGS,
    \* ResourceOption: one option on one invocation
    o_pc, o_group, o_exceptions, o_hasctx, o_opts, o_config, o_env,
    o_dmap, o_default, o_value, o_source, o_loads, o_error,
    \* UserDefaults: the in-memory map, the backing file and its backup
    data, file, backup, s_last,
    \* write() taken one step at a time: the frame of each caller
    wf

resolveVars == <<r_paths, r_group, r_common, r_out>>
memVars == <<heap, LOADED_CONFIGS>>
loadVars == <<ld, memVars>>
optVars == <<o_pc, o_group, o_exceptions, o_hasctx, o_opts, o_config, o_env,
             o_dmap, o_default, o_value, o_source, o_loads, o_error>>
storeVars == <<data, file, backup, s_last, wf>>
vars == <<resolveVars, loadVars, optVars, storeVars>>

-----------------------------------------------------------------------------
(* Bounds *)

\* longest list of references passed to one call
MaxPaths == 2
\* longest retention list the model lets a new load call start from
MaxRetained == 4
\* most load calls one type_cast_value loop is followed for
MaxLoads == 3

-----------------------------------------------------------------------------
(* Python values and strings *)

NoneV == [t |-> "none", v |-> 0]
IntV(n) == [t |-> "int", v |-> n]
StrV(s) == [t |-> "str", v |-> s]

IsNone(x) == x.t = "none"
IsStr(x) == x.t = "str"

COLON == ":"
DOT == "."

\* str.startswith("__")
StartsWithDunder(s) == Len(s) >= 2 /\ s[1] = "_" /\ s[2] = "_"

\* positions of character c in s
Positions(s, c) == {i \in 1..Len(s) : s[i] = c}

Max(S) == CHOOSE x \in S : \A y \in S : y <= x
Min(S) == CHOOSE x \in S : \A y \in S : x <= y

\* the empty dict
EmptyDict == <<>>
\* dict d with key k bound to x
Put(d, k, x) == [j \in (DOMAIN d) \cup {k} |-> IF j = k THEN x ELSE d[j]]
\* dict d without key k
Drop(d, k) == [j \in (DOMAIN d) \ {k} |-> d[j]]
\* dict.update: the entries of e win
Update(d, e) == [j \in (DOMAIN d) \cup (DOMAIN e) |-> IF j \in DOMAIN e THEN e[j] ELSE d[j]]
-----------------------------------------------------------------------------
(* The world the calls run in: files on disk, the entry-point registry and  *)
(* the importable modules.                                                 *)

\* "user_config", config.py line 151
USER_CONFIG == <<"u","s","e","r","_","c","o","n","f","i","g">>
\* "initial_context", config.py line 243
INITIAL_CONTEXT == <<"i","n","i","t","i","a","l","_","c","o","n","t","e","x","t">>

\* variable names
nA == <<"a">>
nB == <<"b">>
nC == <<"c">>
nD == <<"d">>
nDunderD == <<"_","_","d">>
nName == <<"_","_","n","a","m","e","_","_">>
nPackage == <<"_","_","p","a","c","k","a","g","e","_","_">>
nDoc == <<"_","_","d","o","c","_","_">>
nLoader == <<"_","_","l","o","a","d","e","r","_","_">>
nSpec == <<"_","_","s","p","e","c","_","_">>
nBuiltins == <<"_","_","b","u","i","l","t","i","n","s","_","_">>

\* paths of the files on disk
fA == <<"A">>
fB == <<"B">>
fC == <<"C">>
fX == <<"X">>
fY == <<"Y">>
fZ == <<"Z">>
\* a path no file is at
fE == <<"E">>

\* module names
mA == <<"m","A">>
mB == <<"m","B">>
mX == <<"m","x">>
mY == <<"m","y">>
mZ == <<"m","z">>
mE == <<"m","e">>

\* names registered under the group
eX == <<"x">>
eY == <<"y">>
eZ == <<"z">>
eE == <<"e">>
\* a string that is no file, no registered name and no module
qQ == <<"q">>

\* the entry-point group that has entries
GROUP == <<"g">>

\* a statement of a configuration file: name = val, or name = src + val
Assign(n, x) == [op |-> "set", name |-> n, src |-> n, val |-> x]
AddTo(n, s, k) == [op |-> "add", name |-> n, src |-> s, val |-> IntV(k)]

\* pathlib.Path(p).is_file() and the content of the file, a list of statements
Disk ==
    (fA :> <<Assign(nA, IntV(1)), AddTo(nB, nA, 2)>>)
 @@ (fB :> <<AddTo(nB, nB, 3)>>)
 @@ (fC :> <<Assign(nDunderD, IntV(5)), Assign(nC, IntV(9))>>)
 @@ (fX :> <<Assign(nA, StrV(eY))>>)
 @@ (fY :> <<Assign(nA, IntV(7))>>)
 @@ (fZ :> <<Assign(nA, StrV(eZ))>>)

is_file(p) == p \in DOMAIN Disk

\* importlib.metadata.entry_points(group=g): name -> EntryPoint(module, attr)
Entry(m, a) == [module |-> m, attr |-> a]
entry_points(g) ==
    IF g = GROUP
    THEN (fA :> Entry(mB, StrV(nB)))
      @@ (mA :> Entry(mB, StrV(nB)))
      @@ (eX :> Entry(mX, NoneV))
      @@ (eY :> Entry(mY, StrV(nA)))
      @@ (eZ :> Entry(mZ, NoneV))
      @@ (eE :> Entry(mE, NoneV))
    ELSE EmptyDict

\* importlib.util.find_spec(name).origin, None when there is no such module
ModuleOrigin ==
    (mA :> fA) @@ (mB :> fB) @@ (mX :> fX) @@ (mY :> fY) @@ (mZ :> fZ)
 @@ (mE :> fE) @@ (fB :> fA)

-----------------------------------------------------------------------------
(* clapper/config.py: reference resolution *)

_get_module_filename(module_name) ==
    IF module_name \in DOMAIN ModuleOrigin
    THEN StrV(ModuleOrigin[module_name])
    ELSE NoneV

\* path.rsplit(":", 1), then the attribute name the reference asks for
_object_name(path, common_name) ==
    LET cols == Positions(path, COLON)
    IN  IF cols = {}
        THEN <<path, common_name>>
        ELSE <<SubSeq(path, 1, Max(cols) - 1),
               StrV(SubSeq(path, Max(cols) + 1, Len(path)))>>

\* a Python str or None taken as a condition
Truthy(x) == IsStr(x) /\ Len(x.v) > 0

\* lines 139-144
EntryPointDict(entry_point_group) ==
    IF IsNone(entry_point_group) THEN EmptyDict
    ELSE entry_points(entry_point_group.v)

Resolved(f, n, o) == [err |-> "none", file |-> f, name |-> n, obj |-> o]
Unresolved(kind, path) == [err |-> kind, file |-> path, name |-> path, obj |-> NoneV]

\* the loop body with the file test moved after the other two
ResolveOne_file_last(path, epd, common_name) ==
    LET on == _object_name(path, common_name)
        stem == on[1]
    IN  IF stem \in DOMAIN epd
        THEN LET fn == _get_module_filename(epd[stem].module)
             IN  IF IsNone(fn) \/ ~is_file(fn.v)
                 THEN Unresolved("entry", path)
                 ELSE Resolved(fn.v, epd[stem].module,
                               IF Truthy(epd[stem].attr) THEN epd[stem].attr ELSE common_name)
        ELSE LET fn == _get_module_filename(stem)
             IN  IF ~(IsNone(fn) \/ ~is_file(fn.v))
                 THEN Resolved(fn.v, USER_CONFIG, on[2])
                 ELSE IF is_file(stem) THEN Resolved(stem, USER_CONFIG, on[2])
                 ELSE Unresolved("path", path)

\* the body of the loop, lines 151-184, for one reference
ResolveOne(path, epd, common_name) ==
    LET on == _object_name(path, common_name)
        stem == on[1]
    IN  IF is_file(stem)
        THEN Resolved(stem, USER_CONFIG, on[2])
        ELSE IF stem \in DOMAIN epd
        THEN LET fn == _get_module_filename(epd[stem].module)
             IN  IF IsNone(fn) \/ ~is_file(fn.v)
                 THEN Unresolved("entry", path)
                 ELSE Resolved(fn.v, epd[stem].module,
                               IF Truthy(epd[stem].attr) THEN epd[stem].attr ELSE common_name)
        ELSE LET fn == _get_module_filename(stem)
             IN  IF IsNone(fn) \/ ~is_file(fn.v)
                 THEN Unresolved("path", path)
                 ELSE Resolved(fn.v, USER_CONFIG, on[2])

\* the loop of lines 150-184 from position i on, with what was appended so far
RECURSIVE ResolveFrom(_, _, _, _, _)
ResolveFrom(paths, i, epd, common_name, acc) ==
    IF i > Len(paths) THEN acc
    ELSE LET one == ResolveOne(paths[i], epd, common_name)
         IN  IF one.err # "none"
             THEN [err |-> one.err, bad |-> paths[i],
                   files |-> <<>>, names |-> <<>>, objs |-> <<>>]
             ELSE ResolveFrom(paths, i + 1, epd, common_name,
                              [acc EXCEPT !.files = Append(@, one.file),
                                          !.names = Append(@, one.name),
                                          !.objs = Append(@, one.obj)])

\* the tuple returned, or the ValueError raised with the input it names
_resolve_entry_point_or_modules(paths, entry_point_group, common_name) ==
    ResolveFrom(paths, 1, EntryPointDict(entry_point_group), common_name,
                [err |-> "none", bad |-> <<>>,
                 files |-> <<>>, names |-> <<>>, objs |-> <<>>])
-----------------------------------------------------------------------------
(* Inputs *)

\* the lists of at most n elements of S
SeqsUpTo(S, n) == UNION {[1..k -> S] : k \in 0..n}

\* what a reference may end with: nothing or ":c"
Suffixes == {<<>>, <<COLON, "c">>}
\* references to files, registered names, modules and to nothing, and one
\* with two colons
ResolveRefs ==
    {st \o su : st \in {fA, fB, mA, eX, eY, eE, qQ}, su \in Suffixes}
    \cup {<<"A", COLON, "a", COLON, "c">>}
GroupInputs == {NoneV, StrV(GROUP)}
CommonInputs == {NoneV, StrV(nA)}

-----------------------------------------------------------------------------
(* Specification SpecResolve: _resolve_entry_point_or_modules on its own *)

Pending == [err |-> "pending", bad |-> <<>>, files |-> <<>>, names |-> <<>>, objs |-> <<>>]

ResolveIdle ==
    /\ r_paths = <<>>
    /\ r_group = NoneV
    /\ r_common = NoneV
    /\ r_out = Pending

R_Call ==
    /\ r_out = Pending
    /\ r_out' = _resolve_entry_point_or_modules(r_paths, r_group, r_common)
    /\ UNCHANGED <<r_paths, r_group, r_common>>
    /\ UNCHANGED <<loadVars, optVars, storeVars>>
-----------------------------------------------------------------------------
(* clapper/config.py: load *)

DictV(d) == [t |-> "dict", v |-> d]

\* types.ModuleType(n).__dict__
ModuleType(n) ==
    (nName :> StrV(n)) @@ (nDoc :> NoneV) @@ (nPackage :> NoneV)
 @@ (nLoader :> NoneV) @@ (nSpec :> NoneV)

\* one statement run in namespace ns: the namespace after it, or the error
ExecStmt(ns, st) ==
    IF st.op = "set"
    THEN [exc |-> "none", ns |-> Put(ns, st.name, st.val)]
    ELSE IF st.src \notin DOMAIN ns
    THEN [exc |-> "NameError", ns |-> ns]
    ELSE IF ns[st.src].t # "int"
    THEN [exc |-> "TypeError", ns |-> ns]
    ELSE [exc |-> "none", ns |-> Put(ns, st.name, IntV(ns[st.src].v + st.val.v))]

RECURSIVE ExecFrom(_, _, _)
ExecFrom(ns, stmts, i) ==
    IF i > Len(stmts) THEN [exc |-> "none", ns |-> ns]
    ELSE LET one == ExecStmt(ns, stmts[i])
         IN  IF one.exc # "none" THEN one ELSE ExecFrom(one.ns, stmts, i + 1)

\* exec(compile(f.read(), path, "exec"), mod.__dict__), lines 53-54: exec
\* binds __builtins__ in the globals it is given, then runs the statements
_load_context(path, ns) ==
    ExecFrom(Put(ns, nBuiltins, [t |-> "obj", v |-> 0]), Disk[path], 1)

\* the context of the previous file forgotten
NonDunder_nothing(d) == EmptyDict

\* {k: v for k, v in d.items() if not k.startswith("__")}, line 263
NonDunder(d) == [k \in {j \in DOMAIN d : ~StartsWithDunder(j)} |-> d[k]]

NoRet == [kind |-> "none", ref |-> 0, val |-> NoneV, name |-> NoneV, bad |-> <<>>, files |-> <<>>]
RetModule(r) == [NoRet EXCEPT !.kind = "module", !.ref = r]
RetValue(x, n) == [NoRet EXCEPT !.kind = "value", !.val = x, !.name = n]
RetValueError(p) == [NoRet EXCEPT !.kind = "ValueError", !.bad = p]
RetImportError(n, fs) == [NoRet EXCEPT !.kind = "ImportError", !.name = n, !.files = fs]
RetRaised(e) == [NoRet EXCEPT !.kind = e]

\* the frame of load when no call is in progress
IdleFrame ==
    [pc |-> "idle", paths |-> <<>>, context |-> NoneV, group |-> NoneV,
     attr |-> NoneV, files |-> <<>>, names |-> <<>>, objs |-> <<>>,
     idx |-> 0, ctxt |-> 0, mod |-> 0, evaluated |-> <<>>, starts |-> <<>>,
     ret |-> NoRet]

Mem(f, h, lc) == [f |-> f, heap |-> h, loaded |-> lc]

\* the initial context built and retained before the references are resolved
LoadBegin_retain_first(paths, context, entry_point_group, attribute_name, h, lc) ==
    LET res == _resolve_entry_point_or_modules(paths, entry_point_group, attribute_name)
        f0 == [IdleFrame EXCEPT !.paths = paths, !.context = context,
                                !.group = entry_point_group, !.attr = attribute_name]
        ctxt == IF IsNone(context) THEN ModuleType(INITIAL_CONTEXT)
                ELSE Update(ModuleType(INITIAL_CONTEXT), context.v)
        at == Len(h) + 1
        f1 == [f0 EXCEPT !.files = res.files, !.names = res.names,
                         !.objs = res.objs, !.ctxt = at, !.idx = 1]
    IN  IF res.err # "none"
        THEN Mem([f0 EXCEPT !.pc = "done", !.ret = RetValueError(res.bad)],
                 Append(h, ctxt), Append(lc, at))
        ELSE IF res.files = <<>>
        THEN Mem([f1 EXCEPT !.pc = "done", !.ret = RetModule(at)],
                 Append(h, ctxt), Append(lc, at))
        ELSE Mem([f1 EXCEPT !.pc = "loop"], Append(h, ctxt), Append(lc, at))

\* lines 238-253: resolve, build the initial context, retain it, and return
\* it when there is nothing to load
LoadBegin(paths, context, entry_point_group, attribute_name, h, lc) ==
    LET res == _resolve_entry_point_or_modules(paths, entry_point_group, attribute_name)
        f0 == [IdleFrame EXCEPT !.paths = paths, !.context = context,
                                !.group = entry_point_group, !.attr = attribute_name]
        ctxt == IF IsNone(context) THEN ModuleType(INITIAL_CONTEXT)
                ELSE Update(ModuleType(INITIAL_CONTEXT), context.v)
        at == Len(h) + 1
        f1 == [f0 EXCEPT !.files = res.files, !.names = res.names,
                         !.objs = res.objs, !.ctxt = at, !.idx = 1]
    IN  IF res.err # "none"
        THEN Mem([f0 EXCEPT !.pc = "done", !.ret = RetValueError(res.bad)], h, lc)
        ELSE IF res.files = <<>>
        THEN Mem([f1 EXCEPT !.pc = "done", !.ret = RetModule(at)],
                 Append(h, ctxt), Append(lc, at))
        ELSE Mem([f1 EXCEPT !.pc = "loop"], Append(h, ctxt), Append(lc, at))

\* the loop skipping a file it has evaluated before in this call
LoadStep_dedup(f, h, lc) ==
    LET k == f.files[f.idx]
        n == f.names[f.idx]
        popped == Drop(Drop(h[f.ctxt], nName), nPackage)
        start == Update(ModuleType(n), NonDunder(popped))
        at == Len(h) + 1
        ran == _load_context(k, start)
        h1 == Append([h EXCEPT ![f.ctxt] = popped], ran.ns)
        f1 == [f EXCEPT !.mod = at, !.evaluated = Append(@, k),
                        !.starts = Append(@, start)]
    IN  IF \E j \in 1..Len(f.evaluated) : f.evaluated[j] = k
        THEN Mem([f EXCEPT !.idx = f.idx + 1], h, lc)
        ELSE IF ran.exc # "none"
        THEN Mem([f1 EXCEPT !.pc = "done", !.ret = RetRaised(ran.exc)], h1, Append(lc, at))
        ELSE Mem([f1 EXCEPT !.ctxt = at, !.idx = f.idx + 1], h1, Append(lc, at))

\* the loop going on to the next file when a file raises
LoadStep_swallow(f, h, lc) ==
    LET k == f.files[f.idx]
        n == f.names[f.idx]
        popped == Drop(Drop(h[f.ctxt], nName), nPackage)
        start == Update(ModuleType(n), NonDunder(popped))
        at == Len(h) + 1
        ran == _load_context(k, start)
        h1 == Append([h EXCEPT ![f.ctxt] = popped], ran.ns)
        f1 == [f EXCEPT !.mod = at, !.evaluated = Append(@, k),
                        !.starts = Append(@, start)]
    IN  Mem([f1 EXCEPT !.ctxt = at, !.idx = f.idx + 1], h1, Append(lc, at))

\* the loop putting the new module in the place of the last retained entry
LoadStep_replace(f, h, lc) ==
    LET k == f.files[f.idx]
        n == f.names[f.idx]
        popped == Drop(Drop(h[f.ctxt], nName), nPackage)
        start == Update(ModuleType(n), NonDunder(popped))
        at == Len(h) + 1
        ran == _load_context(k, start)
        h1 == Append([h EXCEPT ![f.ctxt] = popped], ran.ns)
        f1 == [f EXCEPT !.mod = at, !.evaluated = Append(@, k),
                        !.starts = Append(@, start)]
        lc1 == [lc EXCEPT ![Len(lc)] = at]
    IN  IF ran.exc # "none"
        THEN Mem([f1 EXCEPT !.pc = "done", !.ret = RetRaised(ran.exc)], h1, lc1)
        ELSE Mem([f1 EXCEPT !.ctxt = at, !.idx = f.idx + 1], h1, lc1)

\* lines 256-266: one iteration of the loop, for the file at position f.idx
LoadStep(f, h, lc) ==
    LET k == f.files[f.idx]
        n == f.names[f.idx]
        \* lines 260-261 change the module ctxt refers to
        popped == Drop(Drop(h[f.ctxt], nName), nPackage)
        start == Update(ModuleType(n), NonDunder(popped))
        at == Len(h) + 1
        ran == _load_context(k, start)
        h1 == Append([h EXCEPT ![f.ctxt] = popped], ran.ns)
        f1 == [f EXCEPT !.mod = at, !.evaluated = Append(@, k),
                        !.starts = Append(@, start)]
    IN  IF ran.exc # "none"
        THEN Mem([f1 EXCEPT !.pc = "done", !.ret = RetRaised(ran.exc)], h1, Append(lc, at))
        ELSE Mem([f1 EXCEPT !.ctxt = at, !.idx = f.idx + 1], h1, Append(lc, at))

\* the attribute looked up under the caller's name, not the last resolved one
LoadFinish_default_name(f, h, lc) ==
    LET attribute_name == f.attr
    IN  IF ~Truthy(f.attr)
        THEN Mem([f EXCEPT !.pc = "done", !.ret = RetModule(f.mod)], h, lc)
        ELSE IF attribute_name.v \notin DOMAIN h[f.mod]
        THEN Mem([f EXCEPT !.pc = "done",
                           !.ret = RetImportError(attribute_name, f.files)], h, lc)
        ELSE Mem([f EXCEPT !.pc = "done",
                           !.ret = RetValue(h[f.mod][attribute_name.v], attribute_name)], h, lc)

\* the attribute looked up under the name resolved for the first reference
LoadFinish_first_name(f, h, lc) ==
    LET attribute_name == f.objs[1]
    IN  IF ~Truthy(f.attr)
        THEN Mem([f EXCEPT !.pc = "done", !.ret = RetModule(f.mod)], h, lc)
        ELSE IF attribute_name.v \notin DOMAIN h[f.mod]
        THEN Mem([f EXCEPT !.pc = "done",
                           !.ret = RetImportError(attribute_name, f.files)], h, lc)
        ELSE Mem([f EXCEPT !.pc = "done",
                           !.ret = RetValue(h[f.mod][attribute_name.v], attribute_name)], h, lc)

\* lines 268-280: what the call returns once the loop is over
LoadFinish(f, h, lc) ==
    LET attribute_name == f.objs[Len(f.objs)]
    IN  IF ~Truthy(f.attr)
        THEN Mem([f EXCEPT !.pc = "done", !.ret = RetModule(f.mod)], h, lc)
        ELSE IF IsNone(attribute_name)
        THEN Mem([f EXCEPT !.pc = "done", !.ret = RetRaised("TypeError")], h, lc)
        ELSE IF attribute_name.v \notin DOMAIN h[f.mod]
        THEN Mem([f EXCEPT !.pc = "done",
                           !.ret = RetImportError(attribute_name, f.files)], h, lc)
        ELSE Mem([f EXCEPT !.pc = "done",
                           !.ret = RetValue(h[f.mod][attribute_name.v], attribute_name)], h, lc)

\* the call run to its end
RECURSIVE LoadRun(_)
LoadRun(m) ==
    IF m.f.pc = "done" THEN m
    ELSE IF m.f.idx <= Len(m.f.files)
    THEN LoadRun(LoadStep(m.f, m.heap, m.loaded))
    ELSE LoadRun(LoadFinish(m.f, m.heap, m.loaded))

load(paths, context, entry_point_group, attribute_name, h, lc) ==
    LoadRun(LoadBegin(paths, context, entry_point_group, attribute_name, h, lc))

\* every name of the module kept, the "__x__" ones too
mod_to_context_all(d) == d

\* lines 298-302: the names of mod.__dict__ that do not both start and end
\* with "__"
mod_to_context(d) ==
    LET EndsWithDunder(k) ==
            Len(k) >= 2 /\ k[Len(k)] = "_" /\ k[Len(k) - 1] = "_"
    IN  [k \in {j \in DOMAIN d : ~(StartsWithDunder(j) /\ EndsWithDunder(j))} |-> d[k]]

-----------------------------------------------------------------------------
(* Specification SpecLoad: calls of load, one step of its loop at a time *)

LoadRefs == {fA, fB, fC, fA \o <<COLON, "c">>, mA, qQ}
ContextInputs ==
    {NoneV, DictV((nD :> IntV(35)) @@ (nA :> IntV(0))), DictV((nDunderD :> IntV(1)) @@ (nB :> IntV(10))),
     DictV((nDoc :> IntV(1)) @@ (nC :> IntV(2)))}
AttrInputs == {NoneV, StrV(nA), StrV(nC)}

LoadIdle ==
    /\ ld = IdleFrame
    /\ heap = <<>>
    /\ LOADED_CONFIGS = <<>>

SetMem(m) ==
    /\ ld' = m.f
    /\ heap' = m.heap
    /\ LOADED_CONFIGS' = m.loaded

L_Begin ==
    /\ ld.pc = "idle"
    /\ \E paths \in SeqsUpTo(LoadRefs, MaxPaths), context \in ContextInputs,
          g \in GroupInputs, a \in AttrInputs :
            /\ Len(LOADED_CONFIGS) + Len(paths) + 1 <= MaxRetained
            /\ SetMem(LoadBegin(paths, context, g, a, heap, LOADED_CONFIGS))
    /\ UNCHANGED <<resolveVars, optVars, storeVars>>

L_Step ==
    /\ ld.pc = "loop"
    /\ ld.idx <= Len(ld.files)
    /\ SetMem(LoadStep(ld, heap, LOADED_CONFIGS))
    /\ UNCHANGED <<resolveVars, optVars, storeVars>>

L_Finish ==
    /\ ld.pc = "loop"
    /\ ld.idx > Len(ld.files)
    /\ SetMem(LoadFinish(ld, heap, LOADED_CONFIGS))
    /\ UNCHANGED <<resolveVars, optVars, storeVars>>

\* the caller has taken the result (or the exception)
L_Return ==
    /\ ld.pc = "done"
    /\ ld' = IdleFrame
    /\ UNCHANGED memVars
    /\ UNCHANGED <<resolveVars, optVars, storeVars>>
-----------------------------------------------------------------------------
(* clapper/click.py: ResourceOption *)

\* the name of the option, also the attribute its resources are loaded for
OPTION_NAME == nA

Consumed(x, src) == [err |-> "none", value |-> x, source |-> src]

\* consume_value with "if not value" where the code has "if value is None"
consume_value_falsy(hasctx, entry_point_group, opts, config, env, dmap, dflt) ==
    LET Absent0(x) == IsNone(x) \/ x = IntV(0) \/ x = StrV(<<>>)
    IN  IF ~hasctx /\ IsNone(entry_point_group)
        THEN [err |-> "TypeError", value |-> NoneV, source |-> "none"]
        ELSE LET v1 == opts
                 v2 == IF Absent0(v1) /\ hasctx THEN config ELSE v1
             IN  IF ~Absent0(v2) THEN Consumed(v2, "COMMANDLINE")
                 ELSE IF ~Absent0(env) THEN Consumed(env, "ENVIRONMENT")
                 ELSE IF ~Absent0(dmap) THEN Consumed(dmap, "DEFAULT_MAP")
                 ELSE Consumed(dflt, "DEFAULT")

\* consume_value with "or" where the code has "and" in line 400
consume_value_or(hasctx, entry_point_group, opts, config, env, dmap, dflt) ==
    IF ~hasctx \/ IsNone(entry_point_group)
    THEN [err |-> "TypeError", value |-> NoneV, source |-> "none"]
    ELSE LET v1 == opts
             v2 == IF IsNone(v1) /\ hasctx THEN config ELSE v1
         IN  IF ~IsNone(v2) THEN Consumed(v2, "COMMANDLINE")
             ELSE IF ~IsNone(env) THEN Consumed(env, "ENVIRONMENT")
             ELSE IF ~IsNone(dmap) THEN Consumed(dmap, "DEFAULT_MAP")
             ELSE Consumed(dflt, "DEFAULT")

\* consume_value, lines 400-432. opts, config, env, dmap and dflt are what
\* opts.get(name), ctx.config_context.get(name), value_from_envvar(ctx),
\* ctx.lookup_default(name) and get_default(ctx) return
consume_value(hasctx, entry_point_group, opts, config, env, dmap, dflt) ==
    IF ~hasctx /\ IsNone(entry_point_group)
    THEN [err |-> "TypeError", value |-> NoneV, source |-> "none"]
    ELSE LET v1 == opts
             v2 == IF IsNone(v1) /\ hasctx THEN config ELSE v1
         IN  IF ~IsNone(v2) THEN Consumed(v2, "COMMANDLINE")
             ELSE IF ~IsNone(env) THEN Consumed(env, "ENVIRONMENT")
             ELSE IF ~IsNone(dmap) THEN Consumed(dmap, "DEFAULT_MAP")
             ELSE Consumed(dflt, "DEFAULT")

\* the loop condition without its string_exceptions test
NeedsLoad_no_exceptions(entry_point_group, string_exceptions, value) ==
    /\ ~IsNone(entry_point_group)
    /\ IsStr(value)

\* the condition of the loop of type_cast_value, lines 455-456
NeedsLoad(entry_point_group, string_exceptions, value) ==
    /\ ~IsNone(entry_point_group)
    /\ IsStr(value)
    /\ value.v \notin string_exceptions

OptsInputs == {NoneV, IntV(0), StrV(<<>>), StrV(eX)}
ConfigInputs == {NoneV, IntV(0), IntV(1)}
EnvInputs == {NoneV, StrV(eZ)}
DefaultMapInputs == {NoneV, IntV(0), StrV(fA)}
DefaultInputs == {NoneV, IntV(42), StrV(eX)}
ExceptionInputs == {{}, {eY}}

OptIdle ==
    /\ o_pc = "new"
    /\ o_group = NoneV
    /\ o_exceptions = {}
    /\ o_hasctx = FALSE
    /\ o_opts = NoneV
    /\ o_config = NoneV
    /\ o_env = NoneV
    /\ o_dmap = NoneV
    /\ o_default = NoneV
    /\ o_value = NoneV
    /\ o_source = "none"
    /\ o_loads = 0
    /\ o_error = "none"

\* __init__, lines 318-376, and the command the option is attached to:
\* a ConfigCommand (whose eager argument sets ctx.config_context) or not
O_Construct ==
    /\ o_pc = "new"
    /\ \E g \in GroupInputs, ex \in ExceptionInputs, hc \in BOOLEAN :
        /\ o_group' = g
        /\ o_exceptions' = ex
        /\ o_hasctx' = hc
    /\ o_pc' = "built"
    /\ UNCHANGED <<o_opts, o_config, o_env, o_dmap, o_default, o_value,
                   o_source, o_loads, o_error>>
    /\ UNCHANGED <<resolveVars, loadVars, storeVars>>

\* consume_value on an invocation with the five sources as drawn
O_Consume ==
    /\ o_pc = "built"
    /\ \E opts \in OptsInputs, env \in EnvInputs, dmap \in DefaultMapInputs,
          dflt \in DefaultInputs,
          config \in IF o_hasctx THEN ConfigInputs ELSE {NoneV} :
        LET out == consume_value(o_hasctx, o_group, opts, config, env, dmap, dflt)
        IN  /\ o_opts' = opts
            /\ o_config' = config
            /\ o_env' = env
            /\ o_dmap' = dmap
            /\ o_default' = dflt
            /\ o_value' = out.value
            /\ o_source' = out.source
            /\ o_error' = out.err
            /\ o_pc' = IF out.err = "none" THEN "consumed" ELSE "error"
    /\ UNCHANGED <<o_group, o_exceptions, o_hasctx, o_loads>>
    /\ UNCHANGED <<resolveVars, loadVars, storeVars>>

\* type_cast_value, line 452: CustomParamType converts nothing
O_CastBegin ==
    /\ o_pc = "consumed"
    /\ o_pc' = "casting"
    /\ UNCHANGED <<o_group, o_exceptions, o_hasctx, o_opts, o_config, o_env,
                   o_dmap, o_default, o_value, o_source, o_loads, o_error>>
    /\ UNCHANGED <<resolveVars, loadVars, storeVars>>

\* one iteration of the loop of lines 456-461
O_CastLoad ==
    /\ o_pc = "casting"
    /\ NeedsLoad(o_group, o_exceptions, o_value)
    /\ o_loads < MaxLoads
    /\ LET m == load(<<o_value.v>>, NoneV, o_group, StrV(OPTION_NAME),
                     heap, LOADED_CONFIGS)
       IN  /\ heap' = m.heap
           /\ LOADED_CONFIGS' = m.loaded
           /\ o_loads' = o_loads + 1
           /\ IF m.f.ret.kind = "value"
              THEN /\ o_value' = m.f.ret.val
                   /\ UNCHANGED <<o_pc, o_error>>
              ELSE /\ o_error' = m.f.ret.kind
                   /\ o_pc' = "error"
                   /\ UNCHANGED o_value
    /\ UNCHANGED <<o_group, o_exceptions, o_hasctx, o_opts, o_config, o_env,
                   o_dmap, o_default, o_source>>
    /\ UNCHANGED <<ld, resolveVars, storeVars>>

\* line 463: the loop is over and the value is returned
O_CastReturn ==
    /\ o_pc = "casting"
    /\ ~NeedsLoad(o_group, o_exceptions, o_value)
    /\ o_pc' = "cast"
    /\ UNCHANGED <<o_group, o_exceptions, o_hasctx, o_opts, o_config, o_env,
                   o_dmap, o_default, o_value, o_source, o_loads, o_error>>
    /\ UNCHANGED <<resolveVars, loadVars, storeVars>>

\* the command body runs with the value
O_Body ==
    /\ o_pc = "cast"
    /\ o_pc' = "body"
    /\ UNCHANGED <<o_group, o_exceptions, o_hasctx, o_opts, o_config, o_env,
                   o_dmap, o_default, o_value, o_source, o_loads, o_error>>
    /\ UNCHANGED <<resolveVars, loadVars, storeVars>>
-----------------------------------------------------------------------------
(* clapper/rc.py: UserDefaults *)

\* k.split(".")
RECURSIVE Split(_)
Split(k) ==
    IF Positions(k, DOT) = {} THEN <<k>>
    ELSE LET i == Min(Positions(k, DOT))
         IN  <<SubSeq(k, 1, i - 1)>> \o Split(SubSeq(k, i + 1, Len(k)))

\* ".".join(parts[n:]), parts counted from 1
RECURSIVE JoinFrom(_, _)
JoinFrom(parts, n) ==
    IF n > Len(parts) THEN <<>>
    ELSE IF n = Len(parts) THEN parts[n]
    ELSE parts[n] \o <<DOT>> \o JoinFrom(parts, n + 1)

\* ".".join(parts[:n])
RECURSIVE JoinUpTo(_, _)
JoinUpTo(parts, n) ==
    IF n = 0 THEN <<>>
    ELSE IF n = 1 THEN parts[1]
    ELSE JoinUpTo(parts, n - 1) \o <<DOT>> \o parts[n]

IsDict(x) == x.t = "dict"
HasDot(k) == Positions(k, DOT) # {}

Found(x) == [err |-> "none", val |-> x]
NotFound(e) == [err |-> e, val |-> NoneV]

\* the loop of __getitem__, lines 125-136, from part n on
RECURSIVE GetWalk(_, _, _)
GetWalk(base, parts, n) ==
    IF n > Len(parts) THEN NotFound("KeyError")
    ELSE IF parts[n] \notin DOMAIN base THEN NotFound("KeyError")
    ELSE LET b == base[parts[n]]
         IN  IF ~IsDict(b) /\ n < Len(parts) THEN NotFound("KeyError")
             \* a scalar at the last part: "subkey in base" is a TypeError
             ELSE IF ~IsDict(b) THEN NotFound("TypeError")
             ELSE IF JoinFrom(parts, n + 1) \in DOMAIN b.v
             THEN Found(b.v[JoinFrom(parts, n + 1)])
             ELSE GetWalk(b.v, parts, n + 1)

\* __getitem__ with the walk done before the verbatim lookup
getitem_walk_first(d, k) ==
    IF HasDot(k) /\ GetWalk(d, Split(k), 1).err = "none"
    THEN GetWalk(d, Split(k), 1)
    ELSE IF k \in DOMAIN d THEN Found(d[k])
    ELSE NotFound("KeyError")

\* UserDefaults.__getitem__, lines 117-139
getitem(d, k) ==
    IF k \in DOMAIN d THEN Found(d[k])
    ELSE IF HasDot(k) /\ GetWalk(d, Split(k), 1).err # "KeyError"
    THEN GetWalk(d, Split(k), 1)
    ELSE NotFound("KeyError")

Stored(d) == [err |-> "none", data |-> d, bad |-> <<>>]

\* the loop of __setitem__, lines 148-156, from part n on: setdefault makes
\* the section before it is tested
RECURSIVE SetWalk(_, _, _, _)
SetWalk(base, parts, n, x) ==
    IF n = Len(parts) THEN Stored(Put(base, parts[n], x))
    ELSE LET child == IF parts[n] \in DOMAIN base THEN base[parts[n]]
                      ELSE DictV(EmptyDict)
         IN  IF ~IsDict(child)
             THEN [err |-> "KeyError", data |-> Put(base, parts[n], child),
                   bad |-> JoinUpTo(parts, n)]
             ELSE LET r == SetWalk(child.v, parts, n + 1, x)
                  IN  [r EXCEPT !.data = Put(base, parts[n], DictV(r.data))]

\* __setitem__ without the walk: the key is stored as it is spelled
setitem_flat(d, k, x) == Stored(Put(d, k, x))

\* UserDefaults.__setitem__, lines 141-160
setitem(d, k, x) ==
    IF HasDot(k) THEN SetWalk(d, Split(k), 1, x)
    ELSE Stored(Put(d, k, x))

\* the loop of __delitem__, lines 169-181, from part n on; hit tells whether
\* an entry was deleted
RECURSIVE DelWalk(_, _, _)
DelWalk(base, parts, n) ==
    IF n > Len(parts) - 1 THEN [hit |-> FALSE, data |-> base]
    ELSE IF parts[n] \notin DOMAIN base THEN [hit |-> FALSE, data |-> base]
    ELSE LET b == base[parts[n]]
         IN  IF ~IsDict(b) THEN [hit |-> FALSE, data |-> base]
             ELSE IF JoinFrom(parts, n + 1) \in DOMAIN b.v
             THEN [hit |-> TRUE,
                   data |-> Put(base, parts[n], DictV(Drop(b.v, JoinFrom(parts, n + 1))))]
             ELSE LET r == DelWalk(b.v, parts, n + 1)
                  IN  [r EXCEPT !.data = Put(base, parts[n], DictV(r.data))]

\* __delitem__ that forgives a key that is not there
delitem_silent(d, k) ==
    IF HasDot(k) /\ DelWalk(d, Split(k), 1).hit
    THEN Stored(DelWalk(d, Split(k), 1).data)
    ELSE Stored(Drop(d, k))

\* UserDefaults.__delitem__, lines 162-184
delitem(d, k) ==
    IF HasDot(k) /\ DelWalk(d, Split(k), 1).hit
    THEN Stored(DelWalk(d, Split(k), 1).data)
    ELSE IF k \in DOMAIN d THEN Stored(Drop(d, k))
    ELSE [err |-> "KeyError", data |-> d, bad |-> k]

\* MutableMapping.clear: popitem (take a top-level key, read it, delete it
\* through __delitem__) until the map is empty
RECURSIVE clear(_)
clear(d) ==
    IF DOMAIN d = {} THEN d
    ELSE clear(delitem(d, CHOOSE k \in DOMAIN d : TRUE).data)

\* MutableMapping.update(pairs): __setitem__ for each pair in order, stopping
\* at the first error
RECURSIVE update(_, _, _)
update(d, pairs, i) ==
    IF i > Len(pairs) THEN Stored(d)
    ELSE LET r == setitem(d, pairs[i][1], pairs[i][2])
         IN  IF r.err # "none" THEN r ELSE update(r.data, pairs, i + 1)

\* The content of a file: absent, a TOML document or a legacy JSON object.
\* A TOML document is the set of its leaves, each with the path of keys that
\* leads to it ("a.b" = 1 has a path of one key, a.b = 1 a path of two); a
\* JSON object is the list of its members in file order.
Absent == [fmt |-> "absent", doc |-> {}]
Toml(doc) == [fmt |-> "toml", doc |-> doc]
Json(pairs) == [fmt |-> "json", doc |-> pairs]
Leaf(path, x) == [path |-> path, val |-> x]
\* an empty table, written as a header with nothing under it
TableV == [t |-> "table", v |-> 0]

IsPrefix(p, q) == Len(p) <= Len(q) /\ SubSeq(q, 1, Len(p)) = p

\* a dump that writes no header for a table with nothing in it
RECURSIVE Flatten_drop_empty(_, _)
Flatten_drop_empty(d, prefix) ==
    UNION {IF IsDict(d[k]) THEN Flatten_drop_empty(d[k].v, Append(prefix, k))
           ELSE {Leaf(Append(prefix, k), d[k])} : k \in DOMAIN d}

\* tomli_w.dump: the leaves of the tree
RECURSIVE Flatten(_, _)
Flatten(d, prefix) ==
    UNION {IF IsDict(d[k])
           THEN IF DOMAIN d[k].v = {} THEN {Leaf(Append(prefix, k), TableV)}
                ELSE Flatten(d[k].v, Append(prefix, k))
           ELSE {Leaf(Append(prefix, k), d[k])} : k \in DOMAIN d}
toml_dumps(d) == Flatten(d, <<>>)

\* a value tomli_w has no representation for
RECURSIVE Dumpable(_)
Dumpable(d) ==
    \A k \in DOMAIN d : IF IsDict(d[k]) THEN Dumpable(d[k].v) ELSE ~IsNone(d[k])

\* tomli refuses a document that binds a key twice or puts keys under a scalar
TomlValid(doc) ==
    \A e1, e2 \in doc :
        (e1 # e2 /\ IsPrefix(e1.path, e2.path)) => (e1.val = TableV /\ e1.path # e2.path)

\* tomli.load: the tree of the leaves below prefix
RECURSIVE Unflatten(_, _)
Unflatten(doc, prefix) ==
    LET below == {e \in doc : IsPrefix(prefix, e.path) /\ Len(e.path) > Len(prefix)}
        keys == {e.path[Len(prefix) + 1] : e \in below}
        At(k) == {e \in below : e.path = Append(prefix, k) /\ e.val # TableV}
    IN  [k \in keys |->
            IF At(k) # {} THEN (CHOOSE e \in At(k) : TRUE).val
            ELSE DictV(Unflatten(doc, Append(prefix, k)))]
toml_loads(doc) == Unflatten(doc, <<>>)

Disked(d, f, b, e) == [err |-> e, data |-> d, file |-> f, backup |-> b]

\* write that keeps a backup it finds instead of renaming over it
write_keep_backup(d, f, b) ==
    LET b1 == IF f # Absent /\ b = Absent THEN f ELSE b
    IN  IF Dumpable(d) THEN Disked(d, Toml(toml_dumps(d)), b1, "none")
        ELSE Disked(d, Toml({}), b1, "TypeError")

\* UserDefaults.write, lines 100-110: the rename, then open("wb") and dump
write(d, f, b) ==
    LET b1 == IF f # Absent THEN f ELSE b
    IN  IF Dumpable(d) THEN Disked(d, Toml(toml_dumps(d)), b1, "none")
        ELSE Disked(d, Toml({}), b1, "TypeError")

\* the last step of read, line 95, on the contents read
ReadToml(d, f, b, contents) ==
    IF contents.fmt = "toml" /\ TomlValid(contents.doc)
    THEN Disked(Update(d, toml_loads(contents.doc)), f, b, "none")
    ELSE Disked(d, f, b, "TOMLDecodeError")

\* read without the self.data.clear() of line 73
read_merge(d, f, b) ==
    IF f = Absent THEN Disked(d, f, b, "none")
    ELSE IF f.fmt = "json"
    THEN LET up == update(d, f.doc, 1)
             wr == write(up.data, f, b)
         IN  IF up.err # "none" THEN Disked(up.data, f, b, up.err)
             ELSE IF wr.err # "none" THEN wr
             ELSE ReadToml(clear(wr.data), wr.file, wr.backup, wr.file)
    ELSE ReadToml(d, f, b, f)

\* UserDefaults.read, lines 69-98
read(d, f, b) ==
    IF f = Absent THEN Disked(d, f, b, "none")
    ELSE IF f.fmt = "json"
    THEN LET up == update(EmptyDict, f.doc, 1)
             wr == write(up.data, f, b)
         IN  IF up.err # "none" THEN Disked(up.data, f, b, up.err)
             ELSE IF wr.err # "none" THEN wr
             ELSE ReadToml(clear(wr.data), wr.file, wr.backup, wr.file)
    ELSE ReadToml(EmptyDict, f, b, f)

NoOp == [op |-> "none", key |-> <<>>, val |-> NoneV, err |-> "none", out |-> NoneV]
Did(op, k, x, e, out) == [op |-> op, key |-> k, val |-> x, err |-> e, out |-> out]

\* the stores that call write() step by step, and the frame of one that has
\* not called it: where it is in write, the map it holds, what exists()
\* told it, what the file held when it called, and where the file it has
\* open now is
Writers == {1, 2}
NoWriters ==
    [i \in Writers |->
        [pc |-> "idle", d |-> EmptyDict, saw |-> FALSE, old |-> Absent, h |-> "none"]]

StoreIdle ==
    /\ data = EmptyDict
    /\ file = Absent
    /\ backup = Absent
    /\ s_last = NoOp
    /\ wf = NoWriters

kA == <<"a">>
kB == <<"b">>
kAB == <<"a", DOT, "b">>
kABC == <<"a", DOT, "b", DOT, "c">>
kBC == <<"b", DOT, "c">>

\* the files a store may be created on: none, plain keys, a section, a key
\* written with quotes around its dot, alone and in a section, and a legacy
\* JSON file
FileInputs ==
    {Absent,
     Toml({Leaf(<<kA>>, IntV(1)), Leaf(<<kB>>, IntV(2))}),
     Toml({Leaf(<<kA, kB>>, IntV(2))}),
     Toml({Leaf(<<kAB>>, IntV(1))}),
     Toml({Leaf(<<kA, kBC>>, IntV(1))}),
     Json(<< <<kAB, IntV(1)>>, <<kB, IntV(2)>> >>)}
KeyInputs == {kA, kB, kAB, kABC}
ValueInputs == {IntV(1), IntV(2)}

S_Read ==
    /\ LET r == read(data, file, backup)
       IN  /\ data' = r.data
           /\ file' = r.file
           /\ backup' = r.backup
           /\ s_last' = Did("read", <<>>, NoneV, r.err, NoneV)
    /\ UNCHANGED <<resolveVars, loadVars, optVars, wf>>

S_Write ==
    /\ LET r == write(data, file, backup)
       IN  /\ data' = r.data
           /\ file' = r.file
           /\ backup' = r.backup
           /\ s_last' = Did("write", <<>>, NoneV, r.err, NoneV)
    /\ UNCHANGED <<resolveVars, loadVars, optVars, wf>>

S_Get(k) ==
    /\ s_last' = Did("get", k, NoneV, getitem(data, k).err, getitem(data, k).val)
    /\ UNCHANGED <<data, file, backup>>
    /\ UNCHANGED <<resolveVars, loadVars, optVars, wf>>

\* a set that flushes to the file
S_Set_flush(k, x) ==
    /\ data' = setitem(data, k, x).data
    /\ s_last' = Did("set", k, x, setitem(data, k, x).err, NoneV)
    /\ file' = write(setitem(data, k, x).data, file, backup).file
    /\ backup' = write(setitem(data, k, x).data, file, backup).backup
    /\ UNCHANGED <<resolveVars, loadVars, optVars, wf>>

S_Set(k, x) ==
    /\ data' = setitem(data, k, x).data
    /\ s_last' = Did("set", k, x, setitem(data, k, x).err, NoneV)
    /\ UNCHANGED <<file, backup>>
    /\ UNCHANGED <<resolveVars, loadVars, optVars, wf>>

S_Del(k) ==
    /\ data' = delitem(data, k).data
    /\ s_last' = Did("del", k, NoneV, delitem(data, k).err, NoneV)
    /\ UNCHANGED <<file, backup>>
    /\ UNCHANGED <<resolveVars, loadVars, optVars, wf>>

S_Clear ==
    /\ data' = clear(data)
    /\ s_last' = Did("clear", <<>>, NoneV, "none", NoneV)
    /\ UNCHANGED <<file, backup>>
    /\ UNCHANGED <<resolveVars, loadVars, optVars, wf>>

-----------------------------------------------------------------------------
(* Specifications *)

InitResolve ==
    /\ r_paths \in SeqsUpTo(ResolveRefs, MaxPaths)
    /\ r_group \in GroupInputs
    /\ r_common \in CommonInputs
    /\ r_out = Pending
    /\ LoadIdle /\ OptIdle /\ StoreIdle
SpecResolve == InitResolve /\ [][R_Call]_vars

InitLoad == ResolveIdle /\ LoadIdle /\ OptIdle /\ StoreIdle
NextLoad == L_Begin \/ L_Step \/ L_Finish \/ L_Return
SpecLoad == InitLoad /\ [][NextLoad]_vars

InitOption == ResolveIdle /\ LoadIdle /\ OptIdle /\ StoreIdle
NextOption ==
    O_Construct \/ O_Consume \/ O_CastBegin \/ O_CastLoad \/ O_CastReturn \/ O_Body
SpecOption == InitOption /\ [][NextOption]_vars

\* a store is created on one of the files: __init__ reads it (lines 66-67)
InitStore ==
    /\ ResolveIdle /\ LoadIdle /\ OptIdle
    /\ \E f \in FileInputs :
        LET r == read(EmptyDict, f, Absent)
        IN  /\ data = r.data
            /\ file = r.file
            /\ backup = r.backup
            /\ s_last = Did("read", <<>>, NoneV, r.err, NoneV)
    /\ wf = NoWriters
NextStore ==
    \/ S_Read
    \/ \E k \in KeyInputs : S_Get(k)
    \/ \E k \in KeyInputs, x \in ValueInputs : S_Set(k, x)
    \/ \E k \in KeyInputs : S_Del(k)
    \/ S_Clear
SpecStore == InitStore /\ [][NextStore]_vars

-----------------------------------------------------------------------------
(* Specification SpecDisk: a store, its file and the backup of the file,   *)
(* with write and with another store instance writing the same file        *)

\* UserDefaults.__str__, lines 112-115: the text tomli_w.dump produces
__str__(d) == toml_dumps(d)

\* len(store), lines 189-190
S_Len ==
    /\ s_last' = Did("len", <<>>, NoneV, "none", IntV(Cardinality(DOMAIN data)))
    /\ UNCHANGED <<data, file, backup>>
    /\ UNCHANGED <<resolveVars, loadVars, optVars, wf>>

\* iteration over the store, lines 186-187: the top-level keys
S_Iter ==
    /\ s_last' = Did("iter", <<>>, NoneV, "none", [t |-> "keys", v |-> DOMAIN data])
    /\ UNCHANGED <<data, file, backup>>
    /\ UNCHANGED <<resolveVars, loadVars, optVars, wf>>

\* str(store)
S_Str ==
    /\ s_last' = Did("str", <<>>, NoneV,
                     IF Dumpable(data) THEN "none" ELSE "TypeError",
                     IF Dumpable(data) THEN [t |-> "text", v |-> __str__(data)] ELSE NoneV)
    /\ UNCHANGED <<data, file, backup>>
    /\ UNCHANGED <<resolveVars, loadVars, optVars, wf>>

\* write() called on another store instance that has the same path and
\* holds the map d
S_Other(d) ==
    /\ file' = write(d, file, backup).file
    /\ backup' = write(d, file, backup).backup
    /\ s_last' = Did("other", <<>>, NoneV, write(d, file, backup).err, NoneV)
    /\ UNCHANGED data
    /\ UNCHANGED <<resolveVars, loadVars, optVars, wf>>

\* the files a store may be created on: none, one with a quoted dotted key,
\* a legacy JSON file, and a legacy JSON file holding null
DiskFileInputs ==
    {Absent,
     Toml({Leaf(<<kAB>>, IntV(1))}),
     Json(<< <<kAB, IntV(1)>> >>),
     Json(<< <<kA, NoneV>> >>)}
DiskKeyInputs == {kA, kAB}
\* the maps the other instance holds when it writes
OtherInputs == {EmptyDict, (kB :> IntV(2))}

\* __init__, lines 66-67: the map starts empty and the file is read
D_Init ==
    /\ s_last = NoOp
    /\ S_Read

InitDisk ==
    /\ ResolveIdle /\ LoadIdle /\ OptIdle
    /\ data = EmptyDict
    /\ file \in DiskFileInputs
    /\ backup = Absent
    /\ s_last = NoOp
    /\ wf = NoWriters
NextDisk ==
    \/ D_Init
    \/ s_last # NoOp /\ S_Read
    \/ s_last # NoOp /\ S_Write
    \/ s_last # NoOp /\ \E k \in DiskKeyInputs : S_Get(k)
    \/ s_last # NoOp /\ \E k \in DiskKeyInputs, x \in ValueInputs : S_Set(k, x)
    \/ s_last # NoOp /\ \E k \in DiskKeyInputs : S_Del(k)
    \/ s_last # NoOp /\ S_Clear
    \/ s_last # NoOp /\ S_Len
    \/ s_last # NoOp /\ S_Iter
    \/ s_last # NoOp /\ S_Str
    \/ s_last # NoOp /\ \E d \in OtherInputs : S_Other(d)
SpecDisk == InitDisk /\ [][NextDisk]_vars

-----------------------------------------------------------------------------
(* Specification SpecCli: the set and rm commands of user_defaults_group   *)
(* run on a store that was created on one of the files                     *)

\* the set command writing the file although the assignment failed
Cli_set_write_always(k, x) ==
    LET r == setitem(data, k, x)
        w == write(r.data, file, backup)
    IN  /\ data' = r.data
        /\ file' = w.file
        /\ backup' = w.backup
        /\ s_last' = Did("cli_set", k, x,
                         IF r.err = "KeyError" THEN "ClickException" ELSE w.err, NoneV)
        /\ UNCHANGED <<resolveVars, loadVars, optVars, wf>>

\* clapper/click.py, set_, lines 594-604: config[key] = value, then
\* config.write(); a KeyError becomes a ClickException.  x is the value
\* lines 588-592 made of the text on the command line
Cli_set(k, x) ==
    LET r == setitem(data, k, x)
        w == write(r.data, file, backup)
    IN  /\ data' = r.data
        /\ file' = IF r.err = "none" THEN w.file ELSE file
        /\ backup' = IF r.err = "none" THEN w.backup ELSE backup
        /\ s_last' = Did("cli_set", k, x,
                         IF r.err = "KeyError" THEN "ClickException" ELSE w.err, NoneV)
        /\ UNCHANGED <<resolveVars, loadVars, optVars, wf>>

\* clapper/click.py, rm, lines 623-632: del config[key], then config.write()
Cli_rm(k) ==
    LET r == delitem(data, k)
        w == write(r.data, file, backup)
    IN  /\ data' = r.data
        /\ file' = IF r.err = "none" THEN w.file ELSE file
        /\ backup' = IF r.err = "none" THEN w.backup ELSE backup
        /\ s_last' = Did("cli_rm", k, NoneV,
                         IF r.err = "KeyError" THEN "ClickException" ELSE w.err, NoneV)
        /\ UNCHANGED <<resolveVars, loadVars, optVars, wf>>

NextCli ==
    \/ \E k \in KeyInputs, x \in ValueInputs : Cli_set(k, x)
    \/ \E k \in KeyInputs : Cli_rm(k)
SpecCli == InitStore /\ [][NextCli]_vars

-----------------------------------------------------------------------------
(* Specifications SpecWrite and SpecWriters: UserDefaults.write, lines     *)
(* 100-110, one system call at a time; in SpecWrite one store writes and   *)
(* the process may die inside write, in SpecWriters two stores on the same *)
(* path write at the same time                                             *)

\* a file that was written over while it held what another writer had put
\* there: the bytes of the two, mixed
Garbled == [fmt |-> "garbled", doc |-> {}]

\* the maps the writers hold, and the file they start from
WriterData == {(kA :> IntV(1)), (kB :> IntV(2))}
WriteFileInputs == {Absent, Toml({Leaf(<<kAB>>, IntV(1))})}

\* exists() answering yes whatever is there
W_Exists_blind(i, d) ==
    /\ wf[i].pc \in {"idle", "done", "failed", "crashed"}
    /\ wf' = [wf EXCEPT ![i] = [pc |-> "rename", d |-> d, saw |-> TRUE,
                                old |-> file, h |-> "none"]]
    /\ UNCHANGED <<file, backup>>
    /\ UNCHANGED <<resolveVars, loadVars, optVars, data, s_last>>

\* line 102: write() is called on the store that holds d; self.path.exists()
W_Exists(i, d) ==
    /\ wf[i].pc \in {"idle", "done", "failed", "crashed"}
    /\ wf' = [wf EXCEPT ![i] = [pc |-> IF file # Absent THEN "rename" ELSE "open",
                                d |-> d, saw |-> file # Absent,
                                old |-> file, h |-> "none"]]
    /\ UNCHANGED <<file, backup>>
    /\ UNCHANGED <<resolveVars, loadVars, optVars, data, s_last>>

\* the file removed where the code renames it
W_Rename_unlink(i) ==
    /\ wf[i].pc = "rename"
    /\ IF file = Absent
       THEN /\ wf' = [wf EXCEPT ![i].pc = "failed"]
            /\ UNCHANGED <<file, backup>>
       ELSE /\ file' = Absent
            /\ UNCHANGED backup
            /\ wf' = [j \in Writers |->
                        IF j = i THEN [wf[j] EXCEPT !.pc = "open"]
                        ELSE [wf[j] EXCEPT !.h = IF @ = "file" THEN "gone" ELSE @]]
    /\ UNCHANGED <<resolveVars, loadVars, optVars, data, s_last>>

\* line 105: self.path.rename(backup).  It raises FileNotFoundError when the
\* file is not there; otherwise the file takes the place of the backup, and
\* a writer that has the file open has it open still, under its new name
W_Rename(i) ==
    /\ wf[i].pc = "rename"
    /\ IF file = Absent
       THEN /\ wf' = [wf EXCEPT ![i].pc = "failed"]
            /\ UNCHANGED <<file, backup>>
       ELSE /\ backup' = file
            /\ file' = Absent
            /\ wf' = [j \in Writers |->
                        IF j = i THEN [wf[j] EXCEPT !.pc = "open"]
                        ELSE [wf[j] EXCEPT !.h = IF @ = "file" THEN "backup"
                                                 ELSE IF @ = "backup" THEN "gone"
                                                 ELSE @]]
    /\ UNCHANGED <<resolveVars, loadVars, optVars, data, s_last>>

\* line 107: self.path.open("wb") makes the file or empties the one there
W_Open(i) ==
    /\ wf[i].pc = "open"
    /\ file' = Toml({})
    /\ wf' = [wf EXCEPT ![i].pc = "dump", ![i].h = "file"]
    /\ UNCHANGED backup
    /\ UNCHANGED <<resolveVars, loadVars, optVars, data, s_last>>

\* line 108 and the end of the with block: tomli_w.dump writes the map from
\* the start of the file the writer has open, wherever that file now is, and
\* the file is closed.  Written over what another writer put there since
\* the file was emptied, the result is the map or a mix of the two
W_Dump(i) ==
    /\ wf[i].pc = "dump"
    /\ LET mine == Toml(toml_dumps(wf[i].d))
           at == IF wf[i].h = "file" THEN file ELSE backup
       IN  \E c \in IF at = Toml({}) \/ at = mine THEN {mine} ELSE {mine, Garbled} :
              /\ file' = IF wf[i].h = "file" THEN c ELSE file
              /\ backup' = IF wf[i].h = "backup" THEN c ELSE backup
    /\ wf' = [wf EXCEPT ![i].pc = "done", ![i].h = "none"]
    /\ UNCHANGED <<resolveVars, loadVars, optVars, data, s_last>>

\* the process dies inside write()
W_Crash(i) ==
    /\ wf[i].pc \in {"rename", "open", "dump"}
    /\ wf' = [wf EXCEPT ![i].pc = "crashed", ![i].h = "none"]
    /\ UNCHANGED <<file, backup>>
    /\ UNCHANGED <<resolveVars, loadVars, optVars, data, s_last>>

InitWrite ==
    /\ ResolveIdle /\ LoadIdle /\ OptIdle
    /\ data = EmptyDict
    /\ file \in WriteFileInputs
    /\ backup = Absent
    /\ s_last = NoOp
    /\ wf = NoWriters
NextWrite ==
    \/ \E d \in WriterData : W_Exists(1, d)
    \/ W_Rename(1)
    \/ W_Open(1)
    \/ W_Dump(1)
    \/ W_Crash(1)
SpecWrite == InitWrite /\ [][NextWrite]_vars

NextWriters ==
    \E i \in Writers :
        \/ \E d \in WriterData : W_Exists(i, d)
        \/ W_Rename(i)
        \/ W_Open(i)
        \/ W_Dump(i)
SpecWriters == InitWrite /\ [][NextWriters]_vars
-----------------------------------------------------------------------------
(* Claims about reference resolution (SpecResolve) *)

\* the reference at position i without its suffix
StemAt(i) == _object_name(r_paths[i], r_common)[1]
HasSuffix(p) == Positions(p, COLON) # {}
SuffixOf(p) == SubSeq(p, Max(Positions(p, COLON)) + 1, Len(p))
RegisteredAt(i) == ~IsNone(r_group) /\ StemAt(i) \in DOMAIN entry_points(r_group.v)
EntryAt(i) == entry_points(r_group.v)[StemAt(i)]
\* the module name whose file stands for reference i when it is no file
ModuleAt(i) == IF RegisteredAt(i) THEN EntryAt(i).module ELSE StemAt(i)
\* no step yields an existing file for reference i
FailsAt(i) ==
    /\ ~is_file(StemAt(i))
    /\ \/ ModuleAt(i) \notin DOMAIN ModuleOrigin
       \/ ~is_file(ModuleOrigin[ModuleAt(i)])

\* C8: each reference resolves by the first of file, registered name, module
\* that applies; the call fails with the first reference no step resolves,
\* and on success the three lists are index-aligned to the input
C8_ResolutionOrder ==
    r_out.err # "pending" =>
        IF \E i \in 1..Len(r_paths) : FailsAt(i)
        THEN /\ r_out.err \in {"entry", "path"}
             /\ r_out.bad = r_paths[Min({i \in 1..Len(r_paths) : FailsAt(i)})]
        ELSE /\ r_out.err = "none"
             /\ Len(r_out.files) = Len(r_paths)
             /\ Len(r_out.names) = Len(r_paths)
             /\ Len(r_out.objs) = Len(r_paths)
             /\ \A i \in 1..Len(r_paths) :
                  IF is_file(StemAt(i))
                  THEN r_out.files[i] = StemAt(i) /\ r_out.names[i] = USER_CONFIG
                  ELSE r_out.files[i] = ModuleOrigin[ModuleAt(i)]

\* a file that is also a registered name, and a registered name that is also
\* a module, resolved in one call with the group given
C8_Witness ==
    /\ r_out.err = "none"
    /\ r_group = StrV(GROUP)
    /\ r_paths = <<fA, mA>>
    /\ r_out.files = <<fA, fB>>

\* C9: a ":attr" suffix gives the attribute name of its reference whatever
\* the reference resolves to; without suffix the name is the default, or the
\* attribute a registered entry declares
C9_SuffixOverrides ==
    r_out.err = "none" =>
        \A i \in 1..Len(r_paths) :
            r_out.objs[i] =
                IF HasSuffix(r_paths[i]) THEN StrV(SuffixOf(r_paths[i]))
                ELSE IF ~is_file(StemAt(i)) /\ RegisteredAt(i) /\ Truthy(EntryAt(i).attr)
                THEN EntryAt(i).attr
                ELSE r_common

-----------------------------------------------------------------------------
(* Claims about ResourceOption (SpecOption) *)

\* the five sources of the invocation, highest rank first
Sources == <<o_opts, IF o_hasctx THEN o_config ELSE NoneV, o_env, o_dmap, o_default>>
NonNull == {i \in 1..5 : ~IsNone(Sources[i])}
\* the rank of the source that supplies the value: the static default when
\* every other source is null
Supplier == IF NonNull = {} THEN 5 ELSE Min(NonNull)

\* C1: consume_value returns the value of the first non-null source in the
\* order command line, chained context, environment, default map, default
C1_Precedence ==
    o_pc = "consumed" => o_value = Sources[Supplier]

\* a falsy value of the chained context is returned although the environment
\* has a value
C1_Witness ==
    /\ o_pc = "consumed"
    /\ IsNone(o_opts)
    /\ o_hasctx /\ o_config = IntV(0)
    /\ ~IsNone(o_env)
    /\ o_value = IntV(0)

SourceLabels == <<"COMMANDLINE", "CHAINED_CONTEXT", "ENVIRONMENT", "DEFAULT_MAP", "DEFAULT">>

\* C6: the result is tagged with the label of the source that supplied it,
\* one distinct label per source
C6_SourceLabel ==
    o_pc = "consumed" => o_source = SourceLabels[Supplier]

\* C7: the TypeError is raised exactly when the value is consumed with no
\* chained context and no group, before any source is read; construction
\* never fails and the command body does not run after the error
C7_UsageError ==
    /\ o_pc = "built" => o_error = "none"
    /\ o_pc \notin {"new", "built"} =>
         ((~o_hasctx /\ IsNone(o_group)) <=>
            (/\ o_pc = "error" /\ o_error = "TypeError" /\ o_loads = 0
             /\ IsNone(o_value) /\ o_source = "none"))
    /\ o_pc = "body" => (o_hasctx \/ ~IsNone(o_group))

\* the error is raised although the command line supplies a value
C7_Witness ==
    /\ o_pc = "error" /\ o_error = "TypeError"
    /\ ~IsNone(o_opts)

\* the value of attribute OPTION_NAME in the file each reference stands for
ResourceValue ==
    (eX :> StrV(eY)) @@ (eY :> IntV(7)) @@ (eZ :> StrV(eZ)) @@ (fA :> IntV(1))

\* the chain of string-valued resources from x on: the value it ends with
\* and the number of references followed
RECURSIVE Follow(_, _, _)
Follow(x, n, fuel) ==
    IF ~IsStr(x) \/ x.v \in o_exceptions \/ x.v \notin DOMAIN ResourceValue \/ fuel = 0
    THEN <<x, n>>
    ELSE Follow(ResourceValue[x.v], n + 1, fuel - 1)

-----------------------------------------------------------------------------
(* Claims about load (SpecLoad) *)

\* the files of the call evaluated so far
NEval == Len(ld.evaluated)
\* the module built for the i-th file of the call; 0 is the initial context
ModAt(i) == ld.mod - NEval + i
\* the loop is over and every file ran to its end
Completed == ld.pc = "done" /\ ld.ret.kind \in {"module", "value", "ImportError"}
\* the names file p assigns, and the names it assigns after statement j
AssignedBy(p) == {Disk[p][j].name : j \in 1..Len(Disk[p])}
AssignedAfter(p, j) == {Disk[p][m].name : m \in (j + 1)..Len(Disk[p])}
\* the names files and callers bind
UserNames == UNION {AssignedBy(p) : p \in DOMAIN Disk} \cup {nD}

\* the variables of Names bound in the running context after file i, and for
\* i = 0 those of the context the caller supplied
BoundAfter(i, Names) ==
    IF i = 0
    THEN IF IsNone(ld.context) THEN EmptyDict
         ELSE [k \in (DOMAIN ld.context.v) \cap Names |-> ld.context.v[k]]
    ELSE [k \in (DOMAIN heap[ModAt(i)]) \cap Names |-> heap[ModAt(i)][k]]

\* every variable of Names bound after file i-1 is bound to the same value
\* when file i starts
VisibleToNext(Names) ==
    \A i \in 1..NEval :
        \A k \in DOMAIN BoundAfter(i - 1, Names) :
            /\ k \in DOMAIN ld.starts[i]
            /\ ld.starts[i][k] = BoundAfter(i - 1, Names)[k]

\* in the namespace returned, every variable of Names bound after some file
\* is still bound, to the same value unless a later file assigns it
KeptInResult(Names) ==
    (Completed /\ ld.ret.kind = "module" /\ NEval > 0) =>
        \A i \in 0..(NEval - 1) :
            \A k \in DOMAIN BoundAfter(i, Names) :
                /\ k \in DOMAIN heap[ld.ret.ref]
                /\ \/ heap[ld.ret.ref][k] = BoundAfter(i, Names)[k]
                   \/ \E m \in (i + 1)..NEval : k \in AssignedBy(ld.evaluated[m])

\* the last constant a file assigns to a name is what the name holds when the
\* file has run, whatever was inherited
OwnAssignmentWins ==
    \A i \in 1..NEval :
        (i < NEval \/ Completed) =>
            \A j \in 1..Len(Disk[ld.evaluated[i]]) :
                LET st == Disk[ld.evaluated[i]][j]
                IN  (st.op = "set" /\ st.name \notin AssignedAfter(ld.evaluated[i], j))
                        => BoundAfter(i, {st.name}) = (st.name :> st.val)

\* C2 as claimed: the guarantee for every variable name
C2_EveryNameVisible ==
    ld.pc # "idle" =>
        VisibleToNext(UserNames) /\ KeptInResult(UserNames) /\ OwnAssignmentWins

\* C2: every variable whose name does not start with "__" that is bound after
\* file N, or supplied by the caller for the first file, is visible with the
\* same value when file N+1 starts and is kept in the returned namespace
\* unless a later file assigns it; a file's own assignment wins
C2_NonDunderVisible ==
    LET Plain == {k \in UserNames : ~StartsWithDunder(k)}
    IN  ld.pc # "idle" =>
            VisibleToNext(Plain) /\ KeptInResult(Plain) /\ OwnAssignmentWins

\* the second file starts with the b of the first, the d of the caller and
\* the a the first file assigned over the caller's
C2_Witness ==
    /\ Completed
    /\ ld.evaluated = <<fA, fB>>
    /\ ld.context = DictV((nD :> IntV(35)) @@ (nA :> IntV(0)))
    /\ ld.starts[2][nB] = IntV(3)
    /\ ld.starts[2][nA] = IntV(1)
    /\ heap[ld.ret.ref][nD] = IntV(35)
    /\ heap[ld.ret.ref][nB] = IntV(6)

\* C3: the files evaluated are the resolved references, in input order, one
\* evaluation per list position, with no reordering and no deduplication
C3_EvaluationOrder ==
    LET res == _resolve_entry_point_or_modules(ld.paths, ld.group, ld.attr)
    IN  (ld.pc # "idle" /\ res.err = "none") =>
            /\ NEval <= Len(ld.paths)
            /\ ld.evaluated = SubSeq(res.files, 1, NEval)
            /\ Completed => NEval = Len(ld.paths)
            /\ ld.pc = "loop" => NEval = ld.idx - 1

\* the same reference twice: evaluated twice, the second time on the b the
\* first evaluation left
C3_Witness ==
    /\ Completed
    /\ ld.paths = <<fB, fB>>
    /\ ld.evaluated = <<fB, fB>>
    /\ ld.starts[2][nB] = IntV(13)
    /\ heap[ld.mod][nB] = IntV(16)

\* some file of the call assigns x
SomeFileDefines(x) == \E i \in 1..NEval : x \in AssignedBy(ld.evaluated[i])

C10_SetThenGet ==
    (s_last.op = "set" /\ s_last.err = "none") =>
        getitem(data, s_last.key) = Found(s_last.val)

\* what a walk down the sections of d along the first n parts of a path
\* arrives at: a section, a scalar, or nothing
Missing == [t |-> "missing", v |-> 0]
RECURSIVE At(_, _, _)
At(d, parts, n) ==
    IF n = 0 THEN DictV(d)
    ELSE LET up == At(d, parts, n - 1)
         IN  IF IsDict(up) /\ parts[n] \in DOMAIN up.v THEN up.v[parts[n]]
             ELSE Missing
IsScalar(x) == x.t \notin {"dict", "missing"}
\* the proper prefixes of a path that hold a scalar
ScalarPrefixes(d, parts) == {n \in 1..(Len(parts) - 1) : IsScalar(At(d, parts, n))}
\* the paths of at most three segments
Segments == {kA, kB, <<"c">>, kAB, kBC}
TreePaths == UNION {[1..n -> Segments] : n \in 1..3}

\* C11: a set with a dotted key raises KeyError exactly when a proper prefix
\* of the path, walked section by section, holds a scalar; the error names
\* the shallowest such prefix, the map is left as it was, and no set turns a
\* scalar into a section
C11_SetConflict ==
    [][s_last'.op = "set" =>
        LET parts == Split(s_last'.key)
            sp == ScalarPrefixes(data, parts)
        IN  /\ (s_last'.err = "KeyError") <=> (sp # {})
            /\ sp # {} =>
                 /\ setitem(data, s_last'.key, s_last'.val).bad = JoinUpTo(parts, Min(sp))
                 /\ data' = data
            /\ \A q \in TreePaths :
                 IsScalar(At(data, q, Len(q))) => ~IsDict(At(data', q, Len(q)))]_vars

\* a set refused at depth two: a.b holds a scalar and a.b.c is set
C11_Witness ==
    /\ s_last.op = "set" /\ s_last.key = kABC /\ s_last.err = "KeyError"
    /\ IsDict(At(data, <<kA>>, 1))
    /\ IsScalar(At(data, <<kA, kB>>, 2))

\* C12: a set on a key that holds a section with entries is refused, and the
\* entries of the section stay retrievable
C12_SectionNotReplaced ==
    [][(/\ s_last'.op = "set"
        /\ IsDict(getitem(data, s_last'.key).val)
        /\ DOMAIN getitem(data, s_last'.key).val.v # {})
         => (s_last'.err = "KeyError" /\ data' = data)]_vars

\* the depths at which the rest of a dotted key is a key of the section the
\* walk has arrived at
MatchDepths(d, k) ==
    {n \in 1..(Len(Split(k)) - 1) :
        /\ IsDict(At(d, Split(k), n))
        /\ JoinFrom(Split(k), n + 1) \in DOMAIN At(d, Split(k), n).v}
\* the key resolves to an entry: it is spelled so at the top level, or the
\* walk meets its remainder in a section
Resolves(d, k) == k \in DOMAIN d \/ MatchDepths(d, k) # {}

\* C13: a delete on a key that resolves to nothing (a plain key that is not
\* there, a dotted path with a section missing or with a scalar in its way)
\* raises KeyError and leaves the map as it was
C13_DeleteMissing ==
    [][(s_last'.op = "del" /\ ~Resolves(data, s_last'.key))
         => (s_last'.err = "KeyError" /\ data' = data)]_vars

\* a delete of a.b.c refused because a.b holds a scalar
C13_Witness ==
    /\ s_last.op = "del" /\ s_last.key = kABC /\ s_last.err = "KeyError"
    /\ IsScalar(At(data, <<kA, kB>>, 2))

\* C14: after a delete(k) that succeeds, get(k) raises KeyError
C14_DeleteThenGet ==
    (s_last.op = "del" /\ s_last.err = "none") =>
        getitem(data, s_last.key).err = "KeyError"

\* C15: get returns the entry spelled as the key at the top level when there
\* is one; otherwise the entry met at the shallowest depth at which the rest
\* of the key is a key of the section the walk is in; otherwise it raises
\* KeyError
C15_GetOrder ==
    s_last.op = "get" =>
        LET k == s_last.key
            m == MatchDepths(data, k)
        IN  IF k \in DOMAIN data
            THEN s_last.err = "none" /\ s_last.out = data[k]
            ELSE IF m # {}
            THEN /\ s_last.err = "none"
                 /\ s_last.out = At(data, Split(k), Min(m)).v[JoinFrom(Split(k), Min(m) + 1)]
            ELSE s_last.err = "KeyError"

\* the top-level key "a.b" shadows the entry b of section a
C15_Witness ==
    /\ s_last.op = "get" /\ s_last.key = kAB /\ s_last.err = "none"
    /\ kAB \in DOMAIN data
    /\ MatchDepths(data, kAB) = {1}
    /\ s_last.out = data[kAB]
    /\ s_last.out # At(data, <<kA>>, 1).v[kB]

-----------------------------------------------------------------------------
(* Claims about the store and its file (SpecDisk) *)

\* the keys a caller may ask for
RoundTripKeys == {kA, kB, kAB, kABC, kBC}
\* what a store created anew on the file as it is now holds after its read
Fresh == read(EmptyDict, file, backup)

\* C16: after a write, a store created anew on the file returns from get an
\* equal value for every key that was retrievable before the write, and the
\* text of the file is the string conversion of the store
C16_RoundTrip ==
    (s_last.op = "write" /\ s_last.err = "none") =>
        /\ Fresh.err = "none"
        /\ \A k \in RoundTripKeys :
             getitem(data, k).err = "none" => getitem(Fresh.data, k) = getitem(data, k)
        /\ file = Toml(__str__(data))

\* a map with a quoted dotted key, a section with nothing in it and a
\* scalar, written out
C16_Witness ==
    /\ s_last.op = "write" /\ s_last.err = "none"
    /\ kAB \in DOMAIN data
    /\ kA \in DOMAIN data /\ data[kA] = DictV(EmptyDict)
    /\ getitem(Fresh.data, kA) = Found(DictV(EmptyDict))

\* C17: a write that finds the file renames it over the backup and then
\* writes the map, so that afterwards the backup is the file as it was and
\* the file is the map as it is; a write that finds no file creates it and
\* no backup
C17_BackupOnWrite ==
    [][(s_last'.op = "write" /\ s_last'.err = "none") =>
        /\ file' = Toml(toml_dumps(data))
        /\ data' = data
        /\ IF file = Absent THEN backup' = Absent ELSE backup' = file]_vars

\* a write over a file of other content: the backup is in the new format
\* and differs from the file
C17_Witness ==
    /\ s_last.op = "write" /\ s_last.err = "none"
    /\ backup.fmt = "toml"
    /\ backup # file
    /\ file = Toml(toml_dumps(data))

\* C18: a read that finds the file makes the map equal to what the file
\* holds, whatever the map held before; a read that finds no file leaves the
\* map as it was
C18_ReadReplaces ==
    [][(s_last'.op = "read" /\ s_last'.err = "none") =>
        IF file = Absent
        THEN data' = data /\ file' = Absent
        ELSE /\ file'.fmt = "toml"
             /\ data' = toml_loads(file'.doc)
             /\ file.fmt = "toml" => file' = file]_vars

\* a read after another instance wrote b = 2 over an earlier file: the map
\* is what that instance wrote
C18_Witness ==
    /\ s_last.op = "read" /\ s_last.err = "none"
    /\ data = (kB :> IntV(2))
    /\ file = Toml({Leaf(<<kB>>, IntV(2))})
    /\ backup # Absent /\ backup.fmt = "toml" /\ backup.doc # {}

\* C19: a read that finds the file in the legacy format loads its values
\* and leaves the file in the new format; a read that finds the new format
\* writes nothing and yields what the file holds
C19_MigratesOnce ==
    [][s_last'.op = "read" =>
        /\ file.fmt = "json" =>
             /\ s_last'.err = "none"
             /\ file'.fmt = "toml"
             /\ \A i \in 1..Len(file.doc) :
                  getitem(data', file.doc[i][1]) = Found(file.doc[i][2])
        /\ file.fmt = "toml" =>
             /\ file' = file /\ backup' = backup
             /\ s_last'.err = "none" => data' = toml_loads(file.doc)]_vars

\* C20: get, set, delete, clear, len, iteration and string conversion leave
\* the file and its backup as they are; the file and the backup change only
\* in a write and in the read that migrates a legacy file
C20_NoAutoFlush ==
    [][/\ s_last'.op \in {"get", "set", "del", "clear", "len", "iter", "str"} =>
            file' = file /\ backup' = backup
       /\ (file' # file \/ backup' # backup) =>
            \/ s_last'.op \in {"write", "other"}
            \/ s_last'.op = "read" /\ file.fmt = "json"]_vars

\* a set on a store whose file exists: the map and the file differ
C20_Witness ==
    /\ s_last.op = "set" /\ s_last.err = "none"
    /\ file.fmt = "toml"
    /\ toml_loads(file.doc) # data
    /\ backup # Absent


(***************************************************************************)
(* Further claims about load (SpecLoad)                                    *)
(***************************************************************************)

\* a call of load with an empty reference list has returned
EmptyLoadDone == ld.pc = "done" /\ ld.paths = <<>>

\* nothing was evaluated and the result is the initial context itself
ReturnsInitialContext ==
    /\ ld.ret.kind = "module"
    /\ ld.ret.ref = ld.ctxt
    /\ ld.evaluated = <<>>
    /\ heap[ld.ret.ref][nName] = StrV(INITIAL_CONTEXT)
    /\ nBuiltins \notin DOMAIN heap[ld.ret.ref]

\* C21 as claimed: load of an empty reference list evaluates nothing and
\* returns the initial context; its externalized mapping is empty when no
\* context was supplied and equals the supplied mapping otherwise
C21_EmptyLoadContext ==
    EmptyLoadDone =>
        /\ ReturnsInitialContext
        /\ mod_to_context(heap[ld.ret.ref])
             = (IF IsNone(ld.context) THEN EmptyDict ELSE ld.context.v)

\* C21 amended: load of an empty reference list evaluates nothing and returns
\* the initial context; its externalized mapping is empty when no context was
\* supplied and otherwise holds the supplied entries whose names do not both
\* start and end with "__"
C21_EmptyLoadPublic ==
    EmptyLoadDone =>
        /\ ReturnsInitialContext
        /\ mod_to_context(heap[ld.ret.ref])
             = (IF IsNone(ld.context) THEN EmptyDict
                ELSE [k \in {j \in DOMAIN ld.context.v :
                                  ~(StartsWithDunder(j) /\ j[Len(j) - 1] = "_"
                                                        /\ j[Len(j)] = "_")}
                           |-> ld.context.v[k]])

\* an empty load with a supplied context that holds a "__x__" name and a
\* plain one
C21_Witness ==
    /\ EmptyLoadDone
    /\ ld.context = DictV((nDoc :> IntV(1)) @@ (nC :> IntV(2)))
    /\ mod_to_context(heap[ld.ret.ref]) = (nC :> IntV(2))

\* what evaluating the i-th file of the call gave: "none" or the error raised
RaisedBy(i) == _load_context(ld.evaluated[i], ld.starts[i]).exc

\* C22: when evaluating file k of a chain raises, load ends at once with that
\* same error, unwrapped; the files after k are not evaluated and neither a
\* namespace nor an attribute value is returned; the files before k did not
\* raise
C22_ErrorPropagates ==
    /\ \A i \in 1..(NEval - 1) : RaisedBy(i) = "none"
    /\ (NEval >= 1 /\ RaisedBy(NEval) # "none") =>
          /\ ld.pc = "done"
          /\ ld.ret = RetRaised(RaisedBy(NEval))
          /\ ld.ret.ref = 0 /\ ld.ret.val = NoneV
          /\ NEval <= Len(ld.files)
          /\ ld.evaluated = SubSeq(ld.files, 1, NEval)

\* the first of two files raised NameError and the second was never evaluated
C22_Witness ==
    /\ ld.pc = "done"
    /\ ld.files = <<fB, fA>>
    /\ ld.evaluated = <<fB>>
    /\ ld.ret = RetRaised("NameError")

\* the references of the call with the suffix of every reference but the last
\* taken away
EarlierSuffixesDropped ==
    [i \in 1..Len(ld.paths) |->
        IF i < Len(ld.paths) THEN _object_name(ld.paths[i], NoneV)[1] ELSE ld.paths[i]]

Retained == {LOADED_CONFIGS[i] : i \in 1..Len(LOADED_CONFIGS)}

\* one step of load keeps every entry of the retention list in its place and
\* appends: the initial context when a call gets past resolution, the module
\* of the file when the loop evaluates one, nothing otherwise; what is
\* appended is a module object the list did not hold
AppendsOnly ==
    /\ Len(LOADED_CONFIGS') >= Len(LOADED_CONFIGS)
    /\ SubSeq(LOADED_CONFIGS', 1, Len(LOADED_CONFIGS)) = LOADED_CONFIGS
    /\ (ld.pc = "idle" /\ ld'.pc # "idle" /\ ld'.ret.kind # "ValueError") =>
          /\ LOADED_CONFIGS' = Append(LOADED_CONFIGS, ld'.ctxt)
          /\ ld'.ctxt \notin Retained
          /\ heap'[ld'.ctxt][nName] = StrV(INITIAL_CONTEXT)
    /\ (ld.pc = "loop" /\ ld.idx <= Len(ld.files)) =>
          /\ LOADED_CONFIGS' = Append(LOADED_CONFIGS, ld'.mod)
          /\ ld'.mod \notin Retained
          /\ heap'[ld'.mod][nName] = StrV(ld.names[ld.idx])
    /\ (ld.pc = "done" \/ (ld.pc = "loop" /\ ld.idx > Len(ld.files))
            \/ ld'.ret.kind = "ValueError") =>
          LOADED_CONFIGS' = LOADED_CONFIGS

\* when a load of n files has succeeded, the last n+1 entries of the list are
\* the initial context of the call and then the modules of its files in load
\* order, all different objects
AppendedByCall ==
    Completed =>
        LET n == Len(ld.files)
            m == Len(LOADED_CONFIGS)
        IN  /\ NEval = n /\ m >= n + 1
            /\ \A i \in 0..n :
                  LOADED_CONFIGS[m - n + i] = (IF n = 0 THEN ld.ctxt ELSE ModAt(i))
            /\ \A i, j \in 1..m : LOADED_CONFIGS[i] = LOADED_CONFIGS[j] => i = j

\* C27: the retention list is append-only across any sequence of load calls:
\* no entry is removed, replaced or reordered; a successful load of n files
\* appends n+1 entries, the initial context and then one module per file in
\* load order; loads of the same references append different module objects
C27_AppendOnly == []AppendedByCall /\ [][AppendsOnly]_vars

\* the same file loaded twice: four entries, two of them modules of that file
\* and different objects
C27_Witness ==
    /\ Completed
    /\ ld.files = <<fA>>
    /\ Len(LOADED_CONFIGS) = 4
    /\ heap[LOADED_CONFIGS[2]] = heap[LOADED_CONFIGS[4]]
    /\ LOADED_CONFIGS[2] # LOADED_CONFIGS[4]
    /\ nA \in DOMAIN heap[LOADED_CONFIGS[2]]

\* the positions of the references of the call that resolve to no file
UnresolvableIn(f) ==
    {i \in 1..Len(f.paths) :
        ResolveOne(f.paths[i], EntryPointDict(f.group), f.attr).err # "none"}

\* the step that starts a call: with an unresolvable reference it ends the
\* call with the ValueError naming the first such reference, creates no
\* module and leaves the retention list alone; otherwise every reference is
\* resolved and still nothing is evaluated
ResolvesBeforeEvaluating ==
    (ld.pc = "idle" /\ ld'.pc # "idle") =>
        LET bad == UnresolvableIn(ld')
        IN  /\ ld'.evaluated = <<>>
            /\ bad # {} =>
                  /\ ld'.pc = "done"
                  /\ ld'.ret = RetValueError(ld'.paths[Min(bad)])
                  /\ heap' = heap
                  /\ LOADED_CONFIGS' = LOADED_CONFIGS
            /\ bad = {} =>
                  /\ ld'.ret.kind # "ValueError"
                  /\ Len(ld'.files) = Len(ld'.paths)

\* C30: resolution completes for the whole list before anything is
\* evaluated: a file is evaluated only in a call all of whose references
\* resolve, and a call with an unresolvable reference fails with the
\* resolution error, evaluates no file, those listed before the offending
\* reference included, and appends nothing to the retention list
C30_ResolveFirst ==
    /\ [](/\ NEval >= 1 => UnresolvableIn(ld) = {}
          /\ ld.ret.kind = "ValueError" => (NEval = 0 /\ UnresolvableIn(ld) # {}))
    /\ [][ResolvesBeforeEvaluating]_vars

\* a resolvable file listed before an unresolvable reference: ValueError,
\* nothing evaluated, nothing retained
C30_Witness ==
    /\ ld.pc = "done"
    /\ ld.paths = <<fA, qQ>>
    /\ ld.ret = RetValueError(qQ)
    /\ ld.evaluated = <<>>
    /\ LOADED_CONFIGS = <<>>
    /\ heap = <<>>

(***************************************************************************)
(* Further claims about UserDefaults (SpecStore)                           *)
(***************************************************************************)

\* C24: a delete on a key that is spelled so at the top level of the map
\* succeeds and removes exactly that top-level entry, also when the key has
\* dots and a nested path of the same name exists; the nested entry stays
C24_DeleteVerbatimFirst ==
    [][(s_last'.op = "del" /\ s_last'.key \in DOMAIN data)
         => (s_last'.err = "none" /\ data' = Drop(data, s_last'.key))]_vars

(***************************************************************************)
(* Further claims about ResourceOption (SpecOption)                        *)
(***************************************************************************)

\* C25: the loop of type_cast_value always terminates.  Whether the loop goes
\* on depends on the value alone, and an iteration takes the value to the
\* next one by a load that depends on the value and the registry alone; so
\* the loop terminates only if no iteration leaves it with the value it
\* started from and the loop still to go on: that is what is stated here
C25_LoopTerminates ==
    [][(o_pc = "casting" /\ o_loads' = o_loads + 1 /\ o_pc' = "casting")
         => (o_value' # o_value \/ ~NeedsLoad(o_group, o_exceptions, o_value'))]_vars

(***************************************************************************)
(* Claims about the set and rm commands (SpecCli)                          *)
(***************************************************************************)

\* in the store as it is, a set that raises leaves the map it was given
SetFailsClean ==
    \A k \in KeyInputs, x \in ValueInputs :
        LET r == setitem(data, k, x)
        IN  /\ r.err # "none" <=> ScalarPrefixes(data, Split(k)) # {}
            /\ r.err # "none" => r.data = data

\* a set command whose key has a scalar where a section is needed fails, and
\* a set or rm command that fails leaves the map, the file and the backup
CliFailsClean ==
    /\ (s_last'.op = "cli_set" /\ ScalarPrefixes(data, Split(s_last'.key)) # {})
          => s_last'.err = "ClickException"
    /\ (s_last'.op \in {"cli_set", "cli_rm"} /\ s_last'.err = "ClickException")
          => (data' = data /\ file' = file /\ backup' = backup)

\* C29: a set that fails with the section/scalar conflict leaves the map in
\* memory exactly as it was, at whatever depth the scalar is met; a set or rm
\* command that fails leaves the map unchanged and the file and its backup
\* unwritten
C29_FailedSetClean == []SetFailsClean /\ [][CliFailsClean]_vars

\* the set command refused at depth two: a.b holds a scalar, and the file
\* still holds what the map holds
C29_Witness ==
    /\ s_last.op = "cli_set" /\ s_last.key = kABC /\ s_last.err = "ClickException"
    /\ IsScalar(At(data, <<kA, kB>>, 2))
    /\ file # Absent /\ file.fmt = "toml"
    /\ toml_loads(file.doc) = data
    /\ backup # Absent

(***************************************************************************)
(* Claims about write taken step by step (SpecWrite, SpecWriters)          *)
(***************************************************************************)

\* C23: from the start of a write() to its end, and wherever the process
\* dies in between, what the file held before the call is at the file path
\* or at the backup path: at the file path until the rename, at the backup
\* path from the rename on, which is over before the file is opened
C23_OldContentKept ==
    \A i \in Writers :
        (wf[i].pc # "idle" /\ wf[i].old # Absent) =>
            /\ file = wf[i].old \/ backup = wf[i].old
            /\ wf[i].pc = "rename" => file = wf[i].old
            /\ wf[i].pc \in {"open", "dump", "done"} => backup = wf[i].old
            /\ wf[i].pc = "open" => file = Absent

\* the process died after the file was emptied and before it was written:
\* the content from before the call is the backup
C23_Witness ==
    /\ wf[1].pc = "crashed"
    /\ wf[1].old = Toml({Leaf(<<kAB>>, IntV(1))})
    /\ file = Toml({})
    /\ backup = wf[1].old

\* what a file holds when it was written to the end: one of the files the
\* writers start from or the text of a writer's map
Complete == (WriteFileInputs \ {Absent}) \cup {Toml(toml_dumps(d)) : d \in WriterData}
Incomplete(c) == c # Absent /\ c \notin Complete

\* one step of two writers: a rename fails only on a file that was there at
\* the writer's existence check and that the other writer has renamed and not
\* yet opened; the backup comes to hold an incomplete file only by a rename
\* of the file the other writer has emptied and not yet written or has
\* written over the text of the first, or by a writer writing over the
\* other's text in a file that was renamed while it had it open
RacesOnly ==
    \A i \in Writers :
        /\ (wf[i].pc = "rename" /\ wf'[i].pc = "failed") =>
              /\ wf[i].saw /\ file = Absent
              /\ \E j \in Writers \ {i} : wf[j].pc = "open"
        /\ (wf[i].pc # wf'[i].pc /\ Incomplete(backup') /\ backup' # backup) =>
              \/ /\ wf[i].pc = "rename" /\ wf'[i].pc = "open"
                 /\ backup' = file
                 /\ \E j \in Writers \ {i} : wf[j].pc = "dump" \/ file = Garbled
              \/ /\ wf[i].pc = "dump" /\ wf[i].h = "backup"
                 /\ backup' = Garbled
                 /\ backup \in Complete

\* C28: write() is not safe when two stores write the same file at once:
\* the steps of the two interleave so that a rename fails on a file that
\* vanished after the existence check, or the backup holds a file that was
\* not written to the end in place of the earlier content; both come from
\* the interleaving alone
C28_UnsafeWriters == [][RacesOnly]_vars

\* writer 2 renamed the file writer 1 had just emptied: the backup is an
\* empty file, nothing is at the file path, and what the file held when
\* writer 1 called write is nowhere
C28_Witness ==
    /\ wf[1].pc = "dump" /\ wf[1].h = "backup"
    /\ wf[2].pc = "open"
    /\ wf[1].old = Toml({Leaf(<<kAB>>, IntV(1))})
    /\ backup = Toml({})
    /\ file = Absent
=============================================================================
